---- MODULE Spec2Model ----
(***************************************************************************)
(* A model of assert_cli's Assert builder (src/assert.rs): the fluent      *)
(* builder that accumulates a command and its expectations, the            *)
(* OutputAssertionBuilder that attaches output predicates, and execute(),  *)
(* which spawns the process and checks the expectations in order, and      *)
(* unwrap(), which panics when execute() fails.                            *)
(*                                                                         *)
(* Rust's Option<T> is a sequence of length 0 (None) or 1 (Some(x)).       *)
(* A String is a sequence of characters, a captured stream a sequence of   *)
(* bytes; the byte "xFF" is not valid UTF-8 and decodes to "U+FFFD".       *)
(***************************************************************************)
EXTENDS Integers, Sequences, FiniteSets, TLC

VARIABLES
    phase,      \* "assert": an Assert is held; "builder": an OutputAssertionBuilder
                \* holds it; "done": execute() or unwrap() consumed it
    a,          \* the Assert (inside the builder while phase = "builder")
    b,          \* the builder's own fields: kind, expected_result
    last,       \* history: the last call made, with its argument
    nots,       \* history: not() calls on the current builder
    output,     \* what the spawn produced (std::process::Output, or the OS error)
    result,     \* what execute() returned, or the panic of unwrap()
    checked,    \* history: the checks execute() performed, in order
    evaluated   \* history: the indices of the output predicates execute() evaluated

vars == <<phase, a, b, last, nots, output, result, checked, evaluated>>

-----------------------------------------------------------------------------
(* Bounds of the model *)

\* with_args is not called once cmd would grow beyond this length
MaxCmdLen == 3
\* no finalizer is called once expect_output holds this many predicates
MaxPreds == 2
\* not() is not called more often than this on one builder
MaxNots == 2

-----------------------------------------------------------------------------
(* Inputs *)

None == <<>>
Some(x) == <<x>>
is_some(o) == Len(o) = 1

BinNames == {"foo"}
Argvs == {<<>>, <<"echo">>}
ArgLists == {<<"-n", "4", "2">>}
Dirs == {"src"}
\* exit codes given to fails_with
ExpectCodes == {0, 1}
\* texts given to contains/is/doesnt_contain/isnt
Texts == {<<"a">>, <<"a", "b">>}

\* what the operating system can answer to a spawn
OsErrors == {"ENOENT"}
\* exit codes of a process; None: it was terminated by a signal
ProcCodes == {None, Some(0), Some(1)}
\* the captured streams of a process: <<stdout, stderr>>
Streams == {<< <<"a", "b", "\n">>, <<"a", "xFF">> >>, << <<" ", "a">>, <<>> >>}

SpawnErrors == [spawned : {FALSE}, os_error : OsErrors]
Outputs ==
    {[spawned |-> TRUE, status |-> [code |-> c], stdout |-> s[1], stderr |-> s[2]] :
        c \in ProcCodes, s \in Streams}
NoOutput == [spawned |-> FALSE, os_error |-> "not spawned"]

-----------------------------------------------------------------------------
(* Assert: constructors and builder calls *)

Default ==
    [cmd |-> <<"cargo", "run", "--">>,
     current_dir |-> None,
     expect_success |-> Some(TRUE),
     expect_exit_code |-> None,
     expect_output |-> <<>>]

main_binary == Default

cargo_binary(name) == [Default EXCEPT !.cmd = <<"cargo", "run", "--bin", name, "--">>]

command(cmd) == [Default EXCEPT !.cmd = cmd]

with_args(self, args) == [self EXCEPT !.cmd = @ \o args]

current_dir(self, dir) == [self EXCEPT !.current_dir = Some(dir)]

and(self) == self

\* faulty variant: the exit-code requirement survives succeeds()
succeeds_keeps_code(self) == [self EXCEPT !.expect_success = Some(TRUE)]

succeeds(self) ==
    [self EXCEPT !.expect_exit_code = None, !.expect_success = Some(TRUE)]

fails(self) == [self EXCEPT !.expect_success = Some(FALSE)]

\* faulty variant: only the exit code is set
fails_with_code_only(self, expect_exit_code) ==
    [self EXCEPT !.expect_exit_code = Some(expect_exit_code)]

fails_with(self, expect_exit_code) ==
    [self EXCEPT !.expect_success = Some(FALSE),
                 !.expect_exit_code = Some(expect_exit_code)]

stdout(self) == [assertion |-> self, kind |-> "StdOut", expected_result |-> TRUE]

stderr(self) == [assertion |-> self, kind |-> "StdErr", expected_result |-> TRUE]

-----------------------------------------------------------------------------
(* OutputAssertionBuilder *)

\* faulty variant: not() sets the flag to false instead of inverting it
not_clears(self) == [self EXCEPT !.expected_result = FALSE]

not(self) == [self EXCEPT !.expected_result = ~ @]

contains(self, text) ==
    [self.assertion EXCEPT !.expect_output =
        Append(@, [expect |-> text, fuzzy |-> TRUE,
                   expected_result |-> self.expected_result, kind |-> self.kind])]

is(self, text) ==
    [self.assertion EXCEPT !.expect_output =
        Append(@, [expect |-> text, fuzzy |-> FALSE,
                   expected_result |-> self.expected_result, kind |-> self.kind])]

\* faulty variant: the negation is forgotten
doesnt_contain_plain(self, text) == contains(self, text)

doesnt_contain(self, text) == contains(not(self), text)

isnt(self, text) == is(not(self), text)

-----------------------------------------------------------------------------
(* Text *)

\* String::from_utf8_lossy: every invalid byte becomes the replacement character
from_utf8_lossy(bytes) ==
    [i \in 1..Len(bytes) |-> IF bytes[i] = "xFF" THEN "U+FFFD" ELSE bytes[i]]

\* str::contains: needle occurs in hay as a contiguous run
str_contains(hay, needle) ==
    \E i \in 0..(Len(hay) - Len(needle)) :
        \A j \in 1..Len(needle) : hay[i + j] = needle[j]

\* char::is_whitespace, on the characters a text of the model can hold
Whitespace == {" ", "\t", "\n", "\f", "\r"}

RECURSIVE trim_start(_)
trim_start(s) ==
    IF s # <<>> /\ Head(s) \in Whitespace THEN trim_start(Tail(s)) ELSE s

RECURSIVE trim_end(_)
trim_end(s) ==
    IF s # <<>> /\ s[Len(s)] \in Whitespace
    THEN trim_end(SubSeq(s, 1, Len(s) - 1))
    ELSE s

\* str::trim: leading and trailing whitespace removed
trim(s) == trim_end(trim_start(s))

-----------------------------------------------------------------------------
(* OutputAssertion::execute (output module) *)

Ok == [kind |-> "Ok"]

select(kind, out) == IF kind = "StdOut" THEN out.stdout ELSE out.stderr

OutputAssertion_execute(p, out, cmd) ==
    LET observed == from_utf8_lossy(select(p.kind, out))
        \* the exact comparison is made on the trimmed texts: is("42") passes on
        \* the output of echo 42, which ends in a newline
        raw == IF p.fuzzy THEN str_contains(observed, p.expect)
                          ELSE trim(observed) = trim(p.expect)
    IN  IF raw # p.expected_result
        THEN [kind |-> "OutputMismatch", cmd |-> cmd, output_kind |-> p.kind,
              expect |-> p.expect, fuzzy |-> p.fuzzy,
              expected_result |-> p.expected_result,
              out |-> from_utf8_lossy(out.stdout),
              err |-> from_utf8_lossy(out.stderr)]
        ELSE Ok

-----------------------------------------------------------------------------
(* Assert::execute *)

\* ExitStatus::success
success(status) == status.code = Some(0)

\* command.output()?: the io::Error is converted by From, which sees the error only
SpawnFailure(self, out) == [kind |-> "CommandNotRunnable", os_error |-> out.os_error]

StatusMismatch(self, out) ==
    [kind |-> "StatusMismatch", cmd |-> self.cmd,
     expected |-> self.expect_success[1],
     out |-> from_utf8_lossy(out.stdout), err |-> from_utf8_lossy(out.stderr)]

ExitCodeMismatch(self, out) ==
    [kind |-> "ExitCodeMismatch", cmd |-> self.cmd,
     expected |-> self.expect_exit_code, got |-> out.status.code,
     out |-> from_utf8_lossy(out.stdout), err |-> from_utf8_lossy(out.stderr)]

\* iter().map(|a| a.execute(..)).collect::<Result<Vec<()>>>(): from predicate i on,
\* in order, stopping at the first Err
RECURSIVE Collect(_, _, _, _)
Collect(self, out, i, seen) ==
    IF i > Len(self.expect_output)
    THEN [result |-> Ok, evaluated |-> seen]
    ELSE LET r == OutputAssertion_execute(self.expect_output[i], out, self.cmd)
         IN  IF r.kind # "Ok"
             THEN [result |-> r, evaluated |-> Append(seen, i)]
             ELSE Collect(self, out, i + 1, Append(seen, i))

\* faulty variant: every predicate is evaluated and the last failure is reported
RECURSIVE CollectAll(_, _, _, _, _)
CollectAll(self, out, i, seen, res) ==
    IF i > Len(self.expect_output)
    THEN [result |-> res, evaluated |-> seen]
    ELSE LET r == OutputAssertion_execute(self.expect_output[i], out, self.cmd)
         IN  CollectAll(self, out, i + 1, Append(seen, i),
                        IF r.kind # "Ok" THEN r ELSE res)

CheckOutput_reports_last(self, out) ==
    LET c == CollectAll(self, out, 1, <<>>, Ok)
    IN  [result |-> c.result, evaluated |-> c.evaluated,
         checked |-> <<"spawn", "status", "exit_code", "output">>]

CheckOutput(self, out) ==
    LET c == Collect(self, out, 1, <<>>)
    IN  [result |-> c.result, evaluated |-> c.evaluated,
         checked |-> <<"spawn", "status", "exit_code", "output">>]

\* faulty variant: a process without an exit code passes the exit-code check
CheckExitCode_signal_passes(self, out) ==
    IF is_some(self.expect_exit_code) /\ is_some(out.status.code)
       /\ self.expect_exit_code # out.status.code
    THEN [result |-> ExitCodeMismatch(self, out), evaluated |-> <<>>,
          checked |-> <<"spawn", "status", "exit_code">>]
    ELSE CheckOutput(self, out)

CheckExitCode(self, out) ==
    IF is_some(self.expect_exit_code) /\ self.expect_exit_code # out.status.code
    THEN [result |-> ExitCodeMismatch(self, out), evaluated |-> <<>>,
          checked |-> <<"spawn", "status", "exit_code">>]
    ELSE CheckOutput(self, out)

\* faulty variant: the exit status is not checked
CheckStatus_skipped(self, out) == CheckExitCode(self, out)

\* faulty variant: the exit code is checked before the exit status
CheckStatus_after_code(self, out) ==
    IF is_some(self.expect_exit_code) /\ self.expect_exit_code # out.status.code
    THEN [result |-> ExitCodeMismatch(self, out), evaluated |-> <<>>,
          checked |-> <<"spawn", "exit_code">>]
    ELSE IF is_some(self.expect_success) /\ self.expect_success[1] # success(out.status)
    THEN [result |-> StatusMismatch(self, out), evaluated |-> <<>>,
          checked |-> <<"spawn", "exit_code", "status">>]
    ELSE CheckOutput(self, out)

CheckStatus(self, out) ==
    IF is_some(self.expect_success) /\ self.expect_success[1] # success(out.status)
    THEN [result |-> StatusMismatch(self, out), evaluated |-> <<>>,
          checked |-> <<"spawn", "status">>]
    ELSE CheckExitCode(self, out)

\* out is what the operating system answers to the spawn of self.cmd
execute(self, out) ==
    IF ~ out.spawned
    THEN [result |-> SpawnFailure(self, out), evaluated |-> <<>>,
          checked |-> <<"spawn">>]
    ELSE CheckStatus(self, out)

\* unwrap: panic!("{}", err) when execute() returns Err(err)
unwrap(r) ==
    IF r.result.kind \in {"Ok", "Panic"}
    THEN r
    ELSE [r EXCEPT !.result = [kind |-> "Panic", error |-> r.result]]

\* &self.cmd[0] on an empty Vec: index out of bounds, before anything is spawned
IndexPanic == [result |-> [kind |-> "Panic"], evaluated |-> <<>>, checked |-> <<>>]

-----------------------------------------------------------------------------
(* The state machine *)

NoBuilder == [kind |-> "none", expected_result |-> TRUE]
NotRun == [kind |-> "NotRun"]

Builder == [assertion |-> a, kind |-> b.kind, expected_result |-> b.expected_result]

Constructor(call) ==
    CASE call[1] = "main_binary" -> main_binary
      [] call[1] = "cargo_binary" -> cargo_binary(call[2])
      [] call[1] = "command" -> command(call[2])

Init ==
    /\ phase = "assert"
    /\ b = NoBuilder
    /\ last \in {<<"main_binary">>} \cup {<<"cargo_binary", n>> : n \in BinNames}
                 \cup {<<"command", c>> : c \in Argvs}
    /\ a = Constructor(last)
    /\ nots = 0
    /\ output = NoOutput
    /\ result = NotRun
    /\ checked = <<>>
    /\ evaluated = <<>>

NotExecuted == UNCHANGED <<output, result, checked, evaluated>>

AssertCall(next, call) ==
    /\ phase = "assert"
    /\ a' = next
    /\ last' = call
    /\ UNCHANGED <<phase, b, nots>>
    /\ NotExecuted

WithArgs ==
    \E args \in ArgLists :
        /\ Len(a.cmd) + Len(args) <= MaxCmdLen
        /\ AssertCall(with_args(a, args), <<"with_args", args>>)

CurrentDir == \E d \in Dirs : AssertCall(current_dir(a, d), <<"current_dir", d>>)

And == AssertCall(and(a), <<"and">>)

Succeeds == AssertCall(succeeds(a), <<"succeeds">>)

Fails == AssertCall(fails(a), <<"fails">>)

FailsWithStep(n) == AssertCall(fails_with(a, n), <<"fails_with", n>>)

FailsWith == \E n \in ExpectCodes : FailsWithStep(n)

Select(nb, call) ==
    /\ phase = "assert"
    /\ Len(a.expect_output) < MaxPreds
    /\ phase' = "builder"
    /\ a' = nb.assertion
    /\ b' = [kind |-> nb.kind, expected_result |-> nb.expected_result]
    /\ last' = call
    /\ nots' = 0
    /\ NotExecuted

Stdout == Select(stdout(a), <<"stdout">>)

Stderr == Select(stderr(a), <<"stderr">>)

Not ==
    /\ phase = "builder"
    /\ nots < MaxNots
    /\ LET nb == not(Builder)
       IN  /\ a' = nb.assertion
           /\ b' = [kind |-> nb.kind, expected_result |-> nb.expected_result]
    /\ last' = <<"not">>
    /\ nots' = nots + 1
    /\ UNCHANGED phase
    /\ NotExecuted

Finalize(next, call) ==
    /\ phase = "builder"
    /\ phase' = "assert"
    /\ a' = next
    /\ b' = NoBuilder
    /\ last' = call
    /\ nots' = 0
    /\ NotExecuted

ContainsStep(x) == Finalize(contains(Builder, x), <<"contains", x>>)

Contains == \E x \in Texts : ContainsStep(x)

IsStep(x) == Finalize(is(Builder, x), <<"is", x>>)

Is == \E x \in Texts : IsStep(x)

DoesntContainStep(x) == Finalize(doesnt_contain(Builder, x), <<"doesnt_contain", x>>)

DoesntContain == \E x \in Texts : DoesntContainStep(x)

IsntStep(x) == Finalize(isnt(Builder, x), <<"isnt", x>>)

Isnt == \E x \in Texts : IsntStep(x)

Executed(out, r, call) ==
    /\ phase' = "done"
    /\ output' = out
    /\ result' = r.result
    /\ checked' = r.checked
    /\ evaluated' = r.evaluated
    /\ last' = call
    /\ UNCHANGED <<a, b, nots>>

Execute ==
    /\ phase = "assert"
    /\ IF Len(a.cmd) = 0
       THEN Executed(NoOutput, IndexPanic, <<"execute">>)
       ELSE \E out \in SpawnErrors \cup Outputs :
                Executed(out, execute(a, out), <<"execute">>)

Unwrap ==
    /\ phase = "assert"
    /\ IF Len(a.cmd) = 0
       THEN Executed(NoOutput, unwrap(IndexPanic), <<"unwrap">>)
       ELSE \E out \in SpawnErrors \cup Outputs :
                Executed(out, unwrap(execute(a, out)), <<"unwrap">>)

Next ==
    \/ WithArgs
    \/ CurrentDir
    \/ And
    \/ Succeeds
    \/ Fails
    \/ FailsWith
    \/ Stdout
    \/ Stderr
    \/ Not
    \/ Contains
    \/ Is
    \/ DoesntContain
    \/ Isnt
    \/ Execute
    \/ Unwrap

Spec == Init /\ [][Next]_vars

-----------------------------------------------------------------------------
(* Vocabulary of the properties *)

Last(s) == s[Len(s)]

UpTo(k) == [i \in 1..k |-> i]

IsPrefix(s, t) == Len(s) <= Len(t) /\ \A i \in 1..Len(s) : s[i] = t[i]

CheckOrder == <<"spawn", "status", "exit_code", "output">>

\* execute() was called and reached the spawn
Executing == phase = "done" /\ last[1] = "execute" /\ Len(a.cmd) > 0

Ran == Executing /\ output.spawned

\* the exit status denotes success: exit code exactly zero
ExitedZero == output.status.code = Some(0)

StatusBad == Ran /\ is_some(a.expect_success) /\ a.expect_success[1] # ExitedZero

ExitCodeBad == Ran /\ is_some(a.expect_exit_code) /\ a.expect_exit_code # output.status.code

\* the text of the stream a predicate looks at
Observed(p) == from_utf8_lossy(IF p.kind = "StdOut" THEN output.stdout ELSE output.stderr)

\* the raw outcome of a predicate differs from its expected_result
PredFails(p) ==
    (IF p.fuzzy THEN str_contains(Observed(p), p.expect)
                ELSE trim(Observed(p)) = trim(p.expect))
        # p.expected_result

FailingPreds == {i \in 1..Len(a.expect_output) : PredFails(a.expect_output[i])}

FirstFailing == CHOOSE i \in FailingPreds : \A j \in FailingPreds : i <= j

Describes(r, p) ==
    /\ r.kind = "OutputMismatch"
    /\ r.output_kind = p.kind
    /\ r.expect = p.expect
    /\ r.fuzzy = p.fuzzy
    /\ r.expected_result = p.expected_result

-----------------------------------------------------------------------------
(* C1: an Assert with the constructors' expectations (success expected, no  *)
(* exit code, no output predicate) executes to success when the spawned     *)
(* process exits with code 0 and to StatusMismatch when it exits with any   *)
(* other code.                                                              *)
C1_DefaultExpectsSuccess ==
    (/\ Ran
     /\ a.expect_success = Default.expect_success
     /\ a.expect_exit_code = Default.expect_exit_code
     /\ a.expect_output = Default.expect_output
     /\ a.expect_success = Some(TRUE)
     /\ is_some(output.status.code))
    => IF output.status.code = Some(0)
       THEN result = Ok
       ELSE result.kind = "StatusMismatch" /\ result.expected = TRUE

C1_Witness ==
    /\ Ran
    /\ a.expect_success = Some(TRUE)
    /\ a.expect_exit_code = None
    /\ a.expect_output = <<>>
    /\ output.status.code = Some(1)
    /\ result.kind = "StatusMismatch"

(* C2: a fails_with(n) call leaves expect_success = Some(false) and         *)
(* expect_exit_code = Some(n) whatever the Assert held before, and its      *)
(* result is that of fails() with expect_exit_code then set to Some(n).     *)
C2_FailsWithOverrides ==
    [][\A n \in ExpectCodes :
        (last'[1] = "fails_with" /\ last'[2] = n)
        => /\ a'.expect_success = Some(FALSE)
           /\ a'.expect_exit_code = Some(n)
           /\ a' = [fails(a) EXCEPT !.expect_exit_code = Some(n)]]_vars

C2_Witness ==
    /\ phase = "assert"
    /\ last = <<"fails_with", 1>>
    /\ Len(a.expect_output) > 0
    /\ a.expect_success = Some(FALSE)
    /\ a.expect_exit_code = Some(1)

(* C3: when the spawn fails, execute() stops at once with a                 *)
(* CommandNotRunnable failure that carries the attempted argv and the OS    *)
(* error, and evaluates no expectation.                                     *)
C3_SpawnFailureCarriesArgv ==
    (Executing /\ ~ output.spawned)
    => /\ result.kind = "CommandNotRunnable"
       /\ checked = <<"spawn">>
       /\ evaluated = <<>>
       /\ result.os_error = output.os_error
       /\ "cmd" \in DOMAIN result
       /\ result.cmd = a.cmd

(* C4: when the status and exit-code checks pass, the output predicates are *)
(* evaluated in the order appended up to the first failing one, the         *)
(* OutputMismatch returned describes that one, and none after it is         *)
(* evaluated; with none failing, all are evaluated and the result is Ok.    *)
C4_FailFast ==
    (Ran /\ ~ StatusBad /\ ~ ExitCodeBad)
    => IF FailingPreds = {}
       THEN result = Ok /\ evaluated = UpTo(Len(a.expect_output))
       ELSE /\ evaluated = UpTo(FirstFailing)
            /\ Describes(result, a.expect_output[FirstFailing])
            /\ result.cmd = a.cmd

C4_Witness ==
    /\ Ran /\ ~ StatusBad /\ ~ ExitCodeBad
    /\ FailingPreds = {1, 2}
    /\ a.expect_output[1].expect # a.expect_output[2].expect
    /\ evaluated = <<1>>
    /\ result.expect = a.expect_output[1].expect

(* C5: a selector starts a builder with expected_result = true; each not()  *)
(* inverts the flag, so a predicate finalized by contains/is after one      *)
(* not() has expected_result = false; the next selector starts from true    *)
(* again; and a negated contains predicate passes exactly when the text is  *)
(* absent from its stream.                                                  *)
C5_NotInvertsOneFinalizer ==
    [][/\ (last'[1] \in {"stdout", "stderr"}) => (b'.expected_result = TRUE /\ a' = a)
       /\ (last'[1] = "not")
          => (b'.expected_result = ~ b.expected_result /\ b'.kind = b.kind /\ a' = a)
       /\ (phase' = "builder") => (b'.expected_result = (nots' % 2 = 0))
       /\ (last'[1] \in {"contains", "is"})
          => /\ Last(a'.expect_output).expected_result = b.expected_result
             /\ (nots = 1) => (Last(a'.expect_output).expected_result = FALSE)
       /\ (/\ last'[1] = "execute"
           /\ Ran' /\ ~ StatusBad' /\ ~ ExitCodeBad'
           /\ Len(a.expect_output) = 1
           /\ a.expect_output[1].fuzzy
           /\ ~ a.expect_output[1].expected_result)
          => (result' = Ok) =
                (~ str_contains(Observed(a.expect_output[1])', a.expect_output[1].expect))
      ]_vars

C5_Witness ==
    /\ phase = "assert"
    /\ last[1] = "contains"
    /\ Len(a.expect_output) = 2
    /\ a.expect_output[1].expected_result = FALSE
    /\ a.expect_output[2].expected_result = TRUE

(* C6: on every builder and text, doesnt_contain(x) gives the Assert that   *)
(* not().contains(x) gives and isnt(x) the one that not().is(x) gives: the  *)
(* parent with one predicate appended, of the builder's kind, with the      *)
(* inverted flag.                                                           *)
C6_SugarEquivalence ==
    [][\A x \in Texts :
        /\ (last'[1] = "doesnt_contain" /\ last'[2] = x)
           => /\ a' = contains(not(Builder), x)
              /\ a' = [a EXCEPT !.expect_output =
                     Append(@, [expect |-> x, fuzzy |-> TRUE,
                                expected_result |-> ~ b.expected_result,
                                kind |-> b.kind])]
        /\ (last'[1] = "isnt" /\ last'[2] = x)
           => /\ a' = is(not(Builder), x)
              /\ a' = [a EXCEPT !.expect_output =
                     Append(@, [expect |-> x, fuzzy |-> FALSE,
                                expected_result |-> ~ b.expected_result,
                                kind |-> b.kind])]]_vars

C6_Witness ==
    /\ phase = "assert"
    /\ last[1] = "doesnt_contain"
    /\ Last(a.expect_output).fuzzy
    /\ Last(a.expect_output).expected_result = TRUE
    /\ Last(a.expect_output).kind = "StdErr"

(* C7: with an exit code expected and a process that has none, execute()    *)
(* fails, once the status check has passed, with ExitCodeMismatch carrying  *)
(* the expected code and an absent actual code.                             *)
C7_NoExitCodeIsMismatch ==
    (/\ Ran /\ ~ StatusBad
     /\ is_some(a.expect_exit_code)
     /\ output.status.code = None)
    => /\ result.kind = "ExitCodeMismatch"
       /\ result.expected = a.expect_exit_code
       /\ result.got = None
       /\ result.cmd = a.cmd

C7_Witness ==
    /\ Ran /\ ~ StatusBad
    /\ a.expect_exit_code = Some(1)
    /\ output.status.code = None
    /\ result.kind = "ExitCodeMismatch"
    /\ result.got = None

(* C8: cmd is non-empty in every Assert the constructors and builder calls  *)
(* produce.                                                                 *)
C8_CmdNonEmpty == Len(a.cmd) > 0

(* C9: execute() checks spawn, exit status, exit code and output            *)
(* predicates in this order and returns the failure of the first check      *)
(* that fails, and success only when none fails.                            *)
C9_CheckOrder ==
    Executing
    => /\ IsPrefix(checked, CheckOrder)
       /\ result.kind =
             (IF ~ output.spawned THEN "CommandNotRunnable"
              ELSE IF StatusBad THEN "StatusMismatch"
              ELSE IF ExitCodeBad THEN "ExitCodeMismatch"
              ELSE IF FailingPreds # {} THEN "OutputMismatch"
              ELSE "Ok")
       /\ Len(checked) =
             (IF ~ output.spawned THEN 1
              ELSE IF StatusBad THEN 2
              ELSE IF ExitCodeBad THEN 3
              ELSE 4)
       /\ (Len(checked) < 4) => (evaluated = <<>>)

C9_Witness ==
    /\ Ran /\ StatusBad /\ ExitCodeBad /\ FailingPreds # {}
    /\ a.expect_exit_code = Some(1)
    /\ output.status.code = Some(0)
    /\ result.kind = "StatusMismatch"
    /\ checked = <<"spawn", "status">>

(* C10: expect_success is always present, an expected exit code goes only   *)
(* with an expectation of failure, and no execution of an Assert that       *)
(* expects exit code 0 succeeds.                                            *)
C10_ExitCodeImpliesFailure ==
    /\ is_some(a.expect_success)
    /\ is_some(a.expect_exit_code) => (a.expect_success = Some(FALSE))
    /\ (phase = "done" /\ a.expect_exit_code = Some(0)) => (result # Ok)

C10_Witness ==
    /\ Ran
    /\ a.expect_exit_code = Some(0)
    /\ a.expect_success = Some(FALSE)
    /\ output.status.code = Some(1)
    /\ result.kind = "ExitCodeMismatch"

====
